---- MODULE Spec2Model ----
(***************************************************************************)
(* Model of the two lab scripts exp1.py (static routing between two Linux  *)
(* routers) and exp2.py (two OVS switches, flows changed by the operator   *)
(* between two ping phases).  A run executes the statements of run() in    *)
(* program order; `pc` is the index of the next statement.  The emulated   *)
(* network (interfaces, addresses, routes, flow tables, MAC tables) is the *)
(* state the statements act on.                                            *)
(***************************************************************************)
EXTENDS Integers, Sequences, FiniteSets, TLC

VARIABLES script, pc, run, netState, kind, declIP, nextIP, intfs, links,
          liveNodes, liveLinks, destroyCount, routes, forward, flows,
          macTable, lastErr, executed, results, results2, file,
          enterPressed, opCount

vars == <<script, pc, run, netState, kind, declIP, nextIP, intfs, links,
          liveNodes, liveLinks, destroyCount, routes, forward, flows,
          macTable, lastErr, executed, results, results2, file,
          enterPressed, opCount>>

\* ------------------------------------------------------------------ bounds
\* Hop budget of one packet walk (L3 hops and switch hops); the real TTL is 64.
MaxHops == 6
\* Number of ovs-ofctl commands the operator issues during the pause.
MaxOperatorCmds == 4

\* --------------------------------------------------------------- constants
\* Priority OVS gives a flow added without "priority=" (add-flow s1 action=normal).
DefaultPriority == 32768
\* Priority of the rules of the manual step.
RulePriority == 100
\* Port numbering bases: a host's first interface is eth0, a switch's first port is 1.
HostPortBase == 0
SwitchPortBase == 1
\* Prefix length Mininet gives automatically assigned host addresses (10.0.0.0/8).
AutoPrefixLen == 8

AllNodes == {"h1", "h2", "h3", "r1", "r2", "s1", "s2"}

IP(a, b, c, d) == ((a * 256 + b) * 256 + c) * 256 + d

\* Base of the automatically assigned addresses.
IpBase == IP(10, 0, 0, 0)

Pow2(n) == 2 ^ n

\* The network part of ip under a prefix of length len (len = 0: the default route).
NetOf(ip, len) == IF len = 0 THEN 0 ELSE (ip \div Pow2(32 - len)) * Pow2(32 - len)

InPrefix(ip, net, len) == NetOf(ip, len) = NetOf(net, len)

\* ---------------------------------------------------------------- programs
\* One statement of run(): the operation, its source line and its arguments
\* (a, b: nodes or a file mode; list: the Python list the statement uses).
Stmt(op, line, a, b, ip, len, port, via, list) ==
    [op |-> op, line |-> line, a |-> a, b |-> b, ip |-> ip, len |-> len,
     port |-> port, via |-> via, list |-> list]

Exp1Program ==
    << Stmt("addHost", 24, "h1", "", IP(10,0,0,1), 24, 0, 0, ""),
       Stmt("addHost", 25, "h2", "", IP(10,0,3,2), 24, 0, 0, ""),
       Stmt("addHost", 26, "h3", "", IP(10,0,2,2), 24, 0, 0, ""),
       Stmt("addHost", 29, "r1", "", IP(10,0,0,3), 24, 0, 0, ""),
       Stmt("addHost", 30, "r2", "", IP(10,0,1,2), 24, 0, 0, ""),
       Stmt("addLink", 34, "h1", "r1", 0, 0, 0, 0, ""),
       Stmt("addLink", 36, "r1", "r2", 0, 0, 0, 0, ""),
       Stmt("addLink", 38, "r2", "h3", 0, 0, 0, 0, ""),
       Stmt("addLink", 40, "r1", "h2", 0, 0, 0, 0, ""),
       Stmt("start", 42, "", "", 0, 0, 0, 0, ""),
       Stmt("ifconfig", 48, "r1", "", IP(10,0,0,3), 24, 0, 0, ""),
       Stmt("ifconfig", 49, "r1", "", IP(10,0,1,1), 24, 1, 0, ""),
       Stmt("ifconfig", 50, "r1", "", IP(10,0,3,4), 24, 2, 0, ""),
       Stmt("ifconfig", 52, "r2", "", IP(10,0,1,2), 24, 0, 0, ""),
       Stmt("ifconfig", 53, "r2", "", IP(10,0,2,1), 24, 1, 0, ""),
       Stmt("sysctl", 56, "r1", "", 0, 0, 0, 0, ""),
       Stmt("sysctl", 57, "r2", "", 0, 0, 0, 0, ""),
       Stmt("route", 60, "h1", "", 0, 0, 0, IP(10,0,0,3), ""),
       Stmt("route", 61, "h2", "", 0, 0, 0, IP(10,0,3,4), ""),
       Stmt("route", 62, "h3", "", 0, 0, 0, IP(10,0,2,1), ""),
       Stmt("route", 66, "r1", "", IP(10,0,2,0), 24, 0, IP(10,0,1,2), ""),
       Stmt("route", 68, "r2", "", IP(10,0,0,0), 24, 0, IP(10,0,1,1), ""),
       Stmt("route", 69, "r2", "", IP(10,0,3,0), 24, 0, IP(10,0,1,1), ""),
       Stmt("newResults", 79, "", "", 0, 0, 0, 0, "results"),
       Stmt("ping", 84, "h1", "", IP(10,0,2,2), 0, 0, 0, "results"),
       Stmt("ping", 84, "h2", "", IP(10,0,2,2), 0, 0, 0, "results"),
       Stmt("ping", 84, "h3", "", IP(10,0,0,1), 0, 0, 0, "results"),
       Stmt("ping", 84, "h3", "", IP(10,0,3,2), 0, 0, 0, "results"),
       Stmt("write", 91, "w", "", 0, 0, 0, 0, "results"),
       Stmt("stop", 97, "", "", 0, 0, 0, 0, ""),
       Stmt("cleanup", 100, "", "", 0, 0, 0, 0, "") >>

\* len of a newResults statement: the number of banner lines the list starts with.
Exp2Program ==
    << Stmt("addHost", 38, "h1", "", 0, 0, 0, 0, ""),
       Stmt("addHost", 39, "h2", "", 0, 0, 0, 0, ""),
       Stmt("addHost", 40, "h3", "", 0, 0, 0, 0, ""),
       Stmt("addSwitch", 43, "s1", "", 0, 0, 0, 0, ""),
       Stmt("addSwitch", 44, "s2", "", 0, 0, 0, 0, ""),
       Stmt("addLink", 49, "h1", "s1", 0, 0, 0, 0, ""),
       Stmt("addLink", 50, "h2", "s1", 0, 0, 0, 0, ""),
       Stmt("addLink", 51, "s1", "s2", 0, 0, 0, 0, ""),
       Stmt("addLink", 52, "s2", "h3", 0, 0, 0, 0, ""),
       Stmt("start", 54, "", "", 0, 0, 0, 0, ""),
       Stmt("addFlow", 59, "s1", "", 0, 0, 0, 0, ""),
       Stmt("addFlow", 60, "s2", "", 0, 0, 0, 0, ""),
       Stmt("newResults", 68, "", "", 0, 3, 0, 0, "results"),
       Stmt("ping", 80, "h1", "h3", 0, 0, 0, 0, "results"),
       Stmt("ping", 80, "h2", "h3", 0, 0, 0, 0, "results"),
       Stmt("write", 86, "w", "", 0, 0, 0, 0, "results"),
       Stmt("input", 115, "", "", 0, 0, 0, 0, ""),
       Stmt("newResults", 121, "", "", 0, 10, 0, 0, "results2"),
       Stmt("ping", 136, "h1", "h3", 0, 0, 0, 0, "results2"),
       Stmt("ping", 136, "h2", "h3", 0, 0, 0, 0, "results2"),
       Stmt("write", 142, "a", "", 0, 0, 0, 0, "results2"),
       Stmt("stop", 155, "", "", 0, 0, 0, 0, ""),
       Stmt("cleanup", 158, "", "", 0, 0, 0, 0, "") >>

Program == IF script = "exp1" THEN Exp1Program ELSE Exp2Program

AtEnd == pc > Len(Program)

Cur == Program[pc]

At(op) == run = "running" /\ ~AtEnd /\ Cur.op = op

\* ------------------------------------------------------- topology helpers
Max(S) == CHOOSE x \in S : \A y \in S : y <= x

Ports(n) == {intfs[n][i].port : i \in 1..Len(intfs[n])}

PortBase(n) == IF kind[n] = "switch" THEN SwitchPortBase ELSE HostPortBase

\* The port a new interface of n gets: the base on a node without interfaces,
\* otherwise one more than the highest port in use.
NewPortOffByOne(n) == IF intfs[n] = << >> THEN PortBase(n) + 1 ELSE Max(Ports(n)) + 2

NewPort(n) == IF intfs[n] = << >> THEN PortBase(n) ELSE Max(Ports(n)) + 1

NoIntf == [port |-> 0 - 1, addr |-> 0, plen |-> 0]

IntfOf(n, p) ==
    IF p \in Ports(n)
    THEN intfs[n][CHOOSE i \in 1..Len(intfs[n]) : intfs[n][i].port = p]
    ELSE NoIntf

\* Links incident to n in the creation log.
IncidentLinks(n) == {i \in 1..Len(links) : links[i].n1 = n \/ links[i].n2 = n}

NoPeer == [node |-> "", port |-> 0 - 1]

\* The far end of the live link attached to port p of node n.
Peer(n, p) ==
    LET ls == {i \in liveLinks : (links[i].n1 = n /\ links[i].p1 = p)
                              \/ (links[i].n2 = n /\ links[i].p2 = p)}
    IN  IF ls = {} THEN NoPeer
        ELSE LET l == links[CHOOSE i \in ls : TRUE]
             IN  IF l.n1 = n /\ l.p1 = p
                 THEN [node |-> l.n2, port |-> l.p2]
                 ELSE [node |-> l.n1, port |-> l.p1]

Owns(n, ip) == ip # 0 /\ \E i \in 1..Len(intfs[n]) : intfs[n][i].addr = ip

Owners(ip) == {n \in liveNodes : Owns(n, ip)}

\* The address of the node's default (first) interface; 0 when it has none.
PrimaryIP(n) == IF intfs[n] = << >> THEN 0 ELSE intfs[n][1].addr

\* ------------------------------------------------ addresses and routes
ConnectedRoute(port, ip, len) ==
    [prefix |-> NetOf(ip, len), len |-> len, via |-> 0, dev |-> port]

\* ifconfig <intf> ip/len: the old address is removed, which flushes the routes
\* through the interface, and the connected route of the new address is added.
RoutesAfterAddrKeepOld(rt, port, ip, len) == Append(rt, ConnectedRoute(port, ip, len))

RoutesAfterAddr(rt, port, ip, len) ==
    LET Keep(e) == e.dev # port
    IN  Append(SelectSeq(rt, Keep), ConnectedRoute(port, ip, len))

IntfsAfterAddr(is, port, ip, len) ==
    [i \in 1..Len(is) |->
        IF is[i].port = port THEN [is[i] EXCEPT !.addr = ip, !.plen = len] ELSE is[i]]

HasPrefix(rt, prefix, len) ==
    \E i \in 1..Len(rt) : rt[i].prefix = prefix /\ rt[i].len = len

NoRoute == [prefix |-> 0, len |-> 0 - 1, via |-> 0, dev |-> 0 - 1]

Matching(rt, ip) == {i \in 1..Len(rt) : InPrefix(ip, rt[i].prefix, rt[i].len)}

\* Longest-prefix match over the node's table.
ResolveShortest(rt, ip) ==
    IF Matching(rt, ip) = {} THEN NoRoute
    ELSE rt[CHOOSE i \in Matching(rt, ip) :
                \A j \in Matching(rt, ip) : rt[i].len <= rt[j].len]

ResolveRoute(rt, ip) ==
    IF Matching(rt, ip) = {} THEN NoRoute
    ELSE rt[CHOOSE i \in Matching(rt, ip) :
                \A j \in Matching(rt, ip) : rt[j].len <= rt[i].len]

\* The connected entry through which a next hop is directly reachable.
GatewayDev(rt, via) ==
    LET c == {i \in 1..Len(rt) : rt[i].via = 0 /\ InPrefix(via, rt[i].prefix, rt[i].len)}
    IN  IF c = {} THEN 0 - 1 ELSE rt[CHOOSE i \in c : TRUE].dev

\* ------------------------------------------------------------ flow tables
NormalFlow == [priority |-> DefaultPriority, in_port |-> 0, type |-> "normal", out |-> 0]

\* The rules of the manual step (in_port 0 is the wildcard).
DropPort2 == [priority |-> RulePriority, in_port |-> 2, type |-> "drop", out |-> 0]
Out1To3 == [priority |-> RulePriority, in_port |-> 1, type |-> "output", out |-> 3]
Out3To1 == [priority |-> RulePriority, in_port |-> 3, type |-> "output", out |-> 1]

ManualRules == {DropPort2, Out1To3, Out3To1}

\* A packet that matches no flow of a switch without controller is dropped.
TableMiss == [priority |-> 0 - 1, in_port |-> 0, type |-> "drop", out |-> 0]

\* ovs-ofctl add-flow: a flow with the same priority and match is replaced.
AddFlowTo(table, rule) ==
    {r \in table : ~(r.priority = rule.priority /\ r.in_port = rule.in_port)} \cup {rule}

MatchingFlows(table, inport) == {r \in table : r.in_port = 0 \/ r.in_port = inport}

\* The flow that handles a packet entering on inport: the matching flow of
\* highest priority (the flows of the scripts never tie).
EvaluateLowest(table, inport) ==
    IF MatchingFlows(table, inport) = {} THEN TableMiss
    ELSE CHOOSE r \in MatchingFlows(table, inport) :
            \A q \in MatchingFlows(table, inport) : r.priority <= q.priority

Evaluate(table, inport) ==
    IF MatchingFlows(table, inport) = {} THEN TableMiss
    ELSE CHOOSE r \in MatchingFlows(table, inport) :
            \A q \in MatchingFlows(table, inport) : q.priority <= r.priority

OutPortsDropFloods(mt, s, inport, l2dst) ==
    LET f == Evaluate(flows[s], inport)
    IN  CASE f.type = "output" -> {f.out} \cap Ports(s)
          [] OTHER ->
                IF l2dst \in AllNodes /\ mt[s][l2dst] # 0
                THEN {mt[s][l2dst]} \ {inport}
                ELSE Ports(s) \ {inport}

\* The ports a frame for l2dst leaves switch s on, having entered on inport.
\* normal: the learned port of l2dst, or all ports but the ingress port.
OutPorts(mt, s, inport, l2dst) ==
    LET f == Evaluate(flows[s], inport)
    IN  CASE f.type = "drop"   -> {}
          [] f.type = "output" -> {f.out} \cap Ports(s)
          [] f.type = "normal" ->
                IF l2dst \in AllNodes /\ mt[s][l2dst] # 0
                THEN {mt[s][l2dst]} \ {inport}
                ELSE Ports(s) \ {inport}

\* The value of a one-element set; binding a value through a set
\* (x \in {e}) makes the model checker compute e once.
The(S) == CHOOSE x \in S : TRUE

\* A frame leaves node n on port p: the host interfaces it arrives at and the
\* switch visits it makes on the way.
RECURSIVE Walk(_, _, _, _, _, _)
Walk(mt, n, p, l2src, l2dst, fuel) ==
    The({ IF peer = NoPeer \/ fuel = 0 \/ peer.node \notin liveNodes
          THEN [arr |-> {}, vis |-> {}]
          ELSE IF kind[peer.node] # "switch"
          THEN [arr |-> {peer.node}, vis |-> {}]
          ELSE The({ The({ [arr |-> UNION {x.arr : x \in sub},
                            vis |-> {[sw |-> peer.node, in |-> peer.port, out |-> outs,
                                      src |-> l2src,
                                      type |-> Evaluate(flows[peer.node], peer.port).type]}
                                    \cup UNION {x.vis : x \in sub}]
                           : sub \in {{Walk(mt, peer.node, q, l2src, l2dst, fuel - 1)
                                          : q \in outs}} })
                     : outs \in {OutPorts(mt, peer.node, peer.port, l2dst)} })
          : peer \in {Peer(n, p)} })

\* MAC learning: a switch handling a frame with the normal action binds the
\* frame's source to the ingress port.
Learn(mt, vis) ==
    [s \in AllNodes |-> [m \in AllNodes |->
        LET hits == {v \in vis : v.sw = s /\ v.src = m /\ v.type = "normal"}
        IN  IF hits = {} THEN mt[s][m] ELSE (CHOOSE v \in hits : TRUE).in]]

Outcome(status, at, hops, arr, vis) ==
    [status |-> status, at |-> at, hops |-> hops, arr |-> arr, vis |-> vis]

OwnerOrNone(ip) == IF Owners(ip) = {} THEN "" ELSE The(Owners(ip))

\* Hop-by-hop delivery of an IP packet for dst, starting at node n: the node
\* resolves dst by longest-prefix match, sends the frame to the next hop (dst
\* itself on a connected route) out of the route's interface, and the node
\* that owns the next-hop address either owns dst or forwards the packet on.
RECURSIVE Route(_, _, _, _)
RECURSIVE Arrive(_, _, _, _, _)

Arrive(mt, t, dst, fuel, w) ==
    IF Owns(t, dst) THEN Outcome("delivered", t, 1, w.arr, w.vis)
    ELSE IF ~forward[t] THEN Outcome("noforward", t, 1, w.arr, w.vis)
    ELSE The({ [rest EXCEPT !.hops = @ + 1, !.arr = @ \cup w.arr, !.vis = @ \cup w.vis]
               : rest \in {Route(mt, t, dst, fuel - 1)} })

Route(mt, n, dst, fuel) ==
    IF Owns(n, dst) THEN Outcome("delivered", n, 0, {}, {})
    ELSE IF fuel = 0 THEN Outcome("loop", n, 0, {}, {})
    ELSE The({ IF r = NoRoute THEN Outcome("noroute", n, 0, {}, {})
               ELSE The({ The({ IF tgt = {}
                                THEN Outcome("unreachable", n, 0, w.arr, w.vis)
                                ELSE The({Arrive(mt, t, dst, fuel, w) : t \in tgt})
                                : tgt \in {w.arr \cap Owners(nh)} })
                          : w \in {Walk(mt, n, r.dev, n, OwnerOrNone(nh), MaxHops)} })
               : r \in {ResolveRoute(routes[n], dst)},
                 nh \in {IF ResolveRoute(routes[n], dst).via = 0 THEN dst
                         ELSE ResolveRoute(routes[n], dst).via} })

NoReply == Outcome("none", "", 0, {}, {})

\* One echo request and its reply: the outcome and the MAC tables afterwards.
Echo(mt, src, dst) ==
    The({ The({ The({ [ok  |-> req.status = "delivered" /\ rep.status = "delivered"
                                 /\ rep.at = src,
                       req |-> req, rep |-> rep, mt |-> Learn(mt1, rep.vis)]
                      : rep \in {IF req.status = "delivered"
                                 THEN Route(mt1, req.at, PrimaryIP(src), MaxHops)
                                 ELSE NoReply} })
                : mt1 \in {Learn(mt, req.vis)} })
          : req \in {Route(mt, src, dst, MaxHops)} })

\* ------------------------------------------------------------------ state
NumLinks(prog) == Cardinality({i \in 1..Len(prog) : prog[i].op = "addLink"})

Init ==
    /\ script \in {"exp1", "exp2"}
    /\ pc = 1
    /\ run = "running"
    /\ netState = "building"
    /\ kind = [n \in AllNodes |-> "none"]
    /\ declIP = [n \in AllNodes |-> [ip |-> 0, len |-> 0]]
    /\ nextIP = 1
    /\ intfs = [n \in AllNodes |-> << >>]
    /\ links = << >>
    /\ liveNodes = {}
    /\ liveLinks = {}
    /\ destroyCount = [nodes |-> [n \in AllNodes |-> 0],
                       links |-> [i \in 1..NumLinks(Program) |-> 0]]
    /\ routes = [n \in AllNodes |-> << >>]
    /\ forward = [n \in AllNodes |-> FALSE]
    /\ flows = [n \in AllNodes |-> {}]
    /\ macTable = [s \in AllNodes |-> [m \in AllNodes |-> 0]]
    /\ lastErr = "ok"
    /\ executed = << >>
    /\ results = << >>
    /\ results2 = << >>
    /\ file = << >>
    /\ enterPressed = FALSE
    /\ opCount = 0

\* Control passes to the next statement; run() returns after the last one.
Advance ==
    /\ pc' = pc + 1
    /\ run' = IF pc = Len(Program) THEN "done" ELSE "running"

\* --------------------------------------------------------- building the net
\* net.addHost(name, ip=...): the node and its namespace exist from here on;
\* the address is only recorded, and every addHost consumes one automatic address.
AddHost ==
    /\ At("addHost")
    /\ kind' = [kind EXCEPT ![Cur.a] = "host"]
    /\ declIP' = [declIP EXCEPT ![Cur.a] =
                    IF Cur.ip # 0 THEN [ip |-> Cur.ip, len |-> Cur.len]
                    ELSE [ip |-> IpBase + nextIP, len |-> AutoPrefixLen]]
    /\ nextIP' = nextIP + 1
    /\ liveNodes' = liveNodes \cup {Cur.a}
    /\ Advance
    /\ UNCHANGED <<script, netState, intfs, links, liveLinks, destroyCount, routes,
                   forward, flows, macTable, lastErr, executed, results, results2,
                   file, enterPressed, opCount>>

\* net.addSwitch(name)
AddSwitch ==
    /\ At("addSwitch")
    /\ kind' = [kind EXCEPT ![Cur.a] = "switch"]
    /\ liveNodes' = liveNodes \cup {Cur.a}
    /\ Advance
    /\ UNCHANGED <<script, netState, declIP, nextIP, intfs, links, liveLinks,
                   destroyCount, routes, forward, flows, macTable, lastErr, executed,
                   results, results2, file, enterPressed, opCount>>

AddLinkConfigures ==
    /\ At("addLink")
    /\ LET pa == NewPort(Cur.a)
           pb == NewPort(Cur.b)
           New(n, p) == [port |-> p,
                         addr |-> IF intfs[n] = << >> THEN declIP[n].ip ELSE 0,
                         plen |-> IF intfs[n] = << >> THEN declIP[n].len ELSE 0]
       IN  /\ intfs' = [intfs EXCEPT ![Cur.a] = Append(@, New(Cur.a, pa)),
                                     ![Cur.b] = Append(@, New(Cur.b, pb))]
           /\ links' = Append(links, [n1 |-> Cur.a, p1 |-> pa, n2 |-> Cur.b, p2 |-> pb])
    /\ liveLinks' = liveLinks \cup {Len(links) + 1}
    /\ Advance
    /\ UNCHANGED <<script, netState, kind, declIP, nextIP, liveNodes, destroyCount,
                   routes, forward, flows, macTable, lastErr, executed, results,
                   results2, file, enterPressed, opCount>>

\* net.addLink(a, b): one new interface on each end, numbered by NewPort.
AddLink ==
    /\ At("addLink")
    /\ LET pa == NewPort(Cur.a)
           pb == NewPort(Cur.b)
       IN  /\ intfs' = [intfs EXCEPT
                  ![Cur.a] = Append(@, [port |-> pa, addr |-> 0, plen |-> 0]),
                  ![Cur.b] = Append(@, [port |-> pb, addr |-> 0, plen |-> 0])]
           /\ links' = Append(links, [n1 |-> Cur.a, p1 |-> pa, n2 |-> Cur.b, p2 |-> pb])
    /\ liveLinks' = liveLinks \cup {Len(links) + 1}
    /\ Advance
    /\ UNCHANGED <<script, netState, kind, declIP, nextIP, liveNodes, destroyCount,
                   routes, forward, flows, macTable, lastErr, executed, results,
                   results2, file, enterPressed, opCount>>

\* net.start(): every host's recorded address is put on its default interface.
Configurable(n) == kind[n] = "host" /\ intfs[n] # << >> /\ declIP[n].ip # 0

NetStart ==
    /\ At("start")
    /\ netState' = "started"
    /\ intfs' = [n \in AllNodes |->
                    IF Configurable(n)
                    THEN IntfsAfterAddr(intfs[n], intfs[n][1].port, declIP[n].ip, declIP[n].len)
                    ELSE intfs[n]]
    /\ routes' = [n \in AllNodes |->
                    IF Configurable(n)
                    THEN RoutesAfterAddr(routes[n], intfs[n][1].port, declIP[n].ip, declIP[n].len)
                    ELSE routes[n]]
    /\ Advance
    /\ UNCHANGED <<script, kind, declIP, nextIP, links, liveNodes, liveLinks,
                   destroyCount, forward, flows, macTable, lastErr, executed, results,
                   results2, file, enterPressed, opCount>>

\* ----------------------------------------------------------- configuration
\* node.cmd('ifconfig <node>-eth<port> ip/len'); cmd() returns the command's
\* output and never raises, whatever the command's exit status.
Ifconfig ==
    /\ At("ifconfig")
    /\ IF Cur.port \in Ports(Cur.a)
       THEN /\ intfs' = [intfs EXCEPT ![Cur.a] = IntfsAfterAddr(@, Cur.port, Cur.ip, Cur.len)]
            /\ routes' = [routes EXCEPT ![Cur.a] = RoutesAfterAddr(@, Cur.port, Cur.ip, Cur.len)]
            /\ lastErr' = "ok"
       ELSE /\ lastErr' = "No such device"
            /\ UNCHANGED <<intfs, routes>>
    /\ Advance
    /\ UNCHANGED <<script, netState, kind, declIP, nextIP, links, liveNodes, liveLinks,
                   destroyCount, forward, flows, macTable, executed, results, results2,
                   file, enterPressed, opCount>>

\* node.cmd('sysctl -w net.ipv4.ip_forward=1')
Sysctl ==
    /\ At("sysctl")
    /\ forward' = [forward EXCEPT ![Cur.a] = TRUE]
    /\ lastErr' = "ok"
    /\ Advance
    /\ UNCHANGED <<script, netState, kind, declIP, nextIP, intfs, links, liveNodes,
                   liveLinks, destroyCount, routes, flows, macTable, executed, results,
                   results2, file, enterPressed, opCount>>

\* node.cmd('ip route add <prefix> via <gw>'): rejected when the prefix is
\* already in the table or the gateway is not on a connected subnet.
IpRouteAdd ==
    /\ At("route")
    /\ LET rt == routes[Cur.a]
       IN  IF HasPrefix(rt, Cur.ip, Cur.len)
           THEN lastErr' = "File exists" /\ UNCHANGED routes
           ELSE IF GatewayDev(rt, Cur.via) < 0
           THEN lastErr' = "Network is unreachable" /\ UNCHANGED routes
           ELSE /\ lastErr' = "ok"
                /\ routes' = [routes EXCEPT ![Cur.a] =
                                Append(@, [prefix |-> Cur.ip, len |-> Cur.len,
                                           via |-> Cur.via, dev |-> GatewayDev(rt, Cur.via)])]
    /\ Advance
    /\ UNCHANGED <<script, netState, kind, declIP, nextIP, intfs, links, liveNodes,
                   liveLinks, destroyCount, forward, flows, macTable, executed, results,
                   results2, file, enterPressed, opCount>>

\* s.cmd('ovs-ofctl add-flow <s> action=normal')
AddNormalFlow ==
    /\ At("addFlow")
    /\ flows' = [flows EXCEPT ![Cur.a] = AddFlowTo(@, NormalFlow)]
    /\ lastErr' = "ok"
    /\ Advance
    /\ UNCHANGED <<script, netState, kind, declIP, nextIP, intfs, links, liveNodes,
                   liveLinks, destroyCount, routes, forward, macTable, executed, results,
                   results2, file, enterPressed, opCount>>

\* ------------------------------------------------------------------ probes
Entry(type, src, dst, ok) == [type |-> type, src |-> src, dst |-> dst, ok |-> ok]

Banner(n) == [i \in 1..n |-> Entry("banner", "", 0, FALSE)]

\* results = [...] / results2 = [...]: a new list holding its banner lines.
NewResults ==
    /\ At("newResults")
    /\ IF Cur.list = "results"
       THEN results' = Banner(Cur.len) /\ UNCHANGED results2
       ELSE results2' = Banner(Cur.len) /\ UNCHANGED results
    /\ Advance
    /\ UNCHANGED <<script, netState, kind, declIP, nextIP, intfs, links, liveNodes,
                   liveLinks, destroyCount, routes, forward, flows, macTable, lastErr,
                   executed, file, enterPressed, opCount>>

\* The target of a probe: a literal address (exp1) or h3.IP() (exp2).
PingDst(st) == IF st.ip # 0 THEN st.ip ELSE PrimaryIP(st.b)

\* The three list elements one loop iteration appends.
ProbeLines(src, dst, ok) ==
    << Entry("from", src, dst, FALSE), Entry("output", src, dst, ok),
       Entry("sep", "", 0, FALSE) >>

\* One iteration of the ping loop: output = host.cmd('ping -c 1 dst') returns
\* whether or not the ping got its reply, and the output is appended to the
\* current list.  A packet can also be lost for reasons outside the forwarding
\* state.
PingSkipsFailure ==
    /\ At("ping")
    /\ \E lost \in BOOLEAN : \E e \in {Echo(macTable, Cur.a, PingDst(Cur))} :
         LET ok == ~lost /\ e.ok
         IN  /\ macTable' = IF lost THEN macTable ELSE e.mt
             /\ executed' = Append(executed, [src |-> Cur.a, dst |-> PingDst(Cur),
                                              ok |-> ok, line |-> Cur.line])
             /\ IF ~ok
                THEN UNCHANGED <<results, results2>>
                ELSE IF Cur.list = "results"
                THEN results' = results \o ProbeLines(Cur.a, PingDst(Cur), ok)
                     /\ UNCHANGED results2
                ELSE results2' = results2 \o ProbeLines(Cur.a, PingDst(Cur), ok)
                     /\ UNCHANGED results
    /\ lastErr' = "ok"
    /\ Advance
    /\ UNCHANGED <<script, netState, kind, declIP, nextIP, intfs, links, liveNodes,
                   liveLinks, destroyCount, routes, forward, flows, file,
                   enterPressed, opCount>>

Ping ==
    /\ At("ping")
    /\ \E lost \in BOOLEAN : \E e \in {Echo(macTable, Cur.a, PingDst(Cur))} :
         LET ok == ~lost /\ e.ok
         IN  /\ macTable' = IF lost THEN macTable ELSE e.mt
             /\ executed' = Append(executed, [src |-> Cur.a, dst |-> PingDst(Cur),
                                              ok |-> ok, line |-> Cur.line])
             /\ IF Cur.list = "results"
                THEN results' = results \o ProbeLines(Cur.a, PingDst(Cur), ok)
                     /\ UNCHANGED results2
                ELSE results2' = results2 \o ProbeLines(Cur.a, PingDst(Cur), ok)
                     /\ UNCHANGED results
    /\ lastErr' = "ok"
    /\ Advance
    /\ UNCHANGED <<script, netState, kind, declIP, nextIP, intfs, links, liveNodes,
                   liveLinks, destroyCount, routes, forward, flows, file,
                   enterPressed, opCount>>

\* with open(result_path, mode) as f: f.writelines(list)
WriteResults ==
    /\ At("write")
    /\ LET list == IF Cur.list = "results" THEN results ELSE results2
       IN  file' = IF Cur.a = "w" THEN list ELSE file \o list
    /\ Advance
    /\ UNCHANGED <<script, netState, kind, declIP, nextIP, intfs, links, liveNodes,
                   liveLinks, destroyCount, routes, forward, flows, macTable, lastErr,
                   executed, results, results2, enterPressed, opCount>>

\* ------------------------------------------------------- the manual step
AtPause == At("input") /\ ~enterPressed

\* input(...) returns once the operator has pressed ENTER; it has no timeout.
Input ==
    /\ At("input")
    /\ enterPressed
    /\ Advance
    /\ UNCHANGED <<script, netState, kind, declIP, nextIP, intfs, links, liveNodes,
                   liveLinks, destroyCount, routes, forward, flows, macTable, lastErr,
                   executed, results, results2, file, enterPressed, opCount>>

\* The operator, in another terminal: sudo ovs-ofctl del-flows s1
OpDelFlows ==
    /\ AtPause
    /\ opCount < MaxOperatorCmds
    /\ opCount' = opCount + 1
    /\ flows' = [flows EXCEPT !["s1"] = {}]
    /\ UNCHANGED <<script, pc, run, netState, kind, declIP, nextIP, intfs, links,
                   liveNodes, liveLinks, destroyCount, routes, forward, macTable,
                   lastErr, executed, results, results2, file, enterPressed>>

\* The operator: sudo ovs-ofctl add-flow s1 "priority=100,in_port=..,actions=.."
OpAddFlow ==
    /\ AtPause
    /\ opCount < MaxOperatorCmds
    /\ opCount' = opCount + 1
    /\ \E r \in ManualRules : flows' = [flows EXCEPT !["s1"] = AddFlowTo(@, r)]
    /\ UNCHANGED <<script, pc, run, netState, kind, declIP, nextIP, intfs, links,
                   liveNodes, liveLinks, destroyCount, routes, forward, macTable,
                   lastErr, executed, results, results2, file, enterPressed>>

\* The operator presses ENTER.
OpPressEnter ==
    /\ AtPause
    /\ enterPressed' = TRUE
    /\ UNCHANGED <<script, pc, run, netState, kind, declIP, nextIP, intfs, links,
                   liveNodes, liveLinks, destroyCount, routes, forward, flows, macTable,
                   lastErr, executed, results, results2, file, opCount>>

\* ---------------------------------------------------------------- teardown
Released(count, live) == [x \in DOMAIN count |-> IF x \in live THEN count[x] + 1 ELSE count[x]]

\* net.stop(): every link is deleted, every switch and host is stopped.
StopLeavesLinks ==
    /\ At("stop")
    /\ netState' = "stopped"
    /\ destroyCount' = [destroyCount EXCEPT !.nodes = Released(@, liveNodes)]
    /\ liveNodes' = {}
    /\ routes' = [n \in AllNodes |-> << >>]
    /\ flows' = [n \in AllNodes |-> {}]
    /\ Advance
    /\ UNCHANGED <<script, kind, declIP, nextIP, intfs, links, liveLinks, forward, macTable,
                   lastErr, executed, results, results2, file, enterPressed, opCount>>

NetStop ==
    /\ At("stop")
    /\ netState' = "stopped"
    /\ destroyCount' = [nodes |-> Released(destroyCount.nodes, liveNodes),
                        links |-> Released(destroyCount.links, liveLinks)]
    /\ liveNodes' = {}
    /\ liveLinks' = {}
    /\ routes' = [n \in AllNodes |-> << >>]
    /\ flows' = [n \in AllNodes |-> {}]
    /\ Advance
    /\ UNCHANGED <<script, kind, declIP, nextIP, intfs, links, forward, macTable,
                   lastErr, executed, results, results2, file, enterPressed, opCount>>

\* os.system('mn -c > /dev/null 2>&1 || true'): whatever Mininet resource is
\* still there is removed; the exit status is discarded.
Cleanup ==
    /\ At("cleanup")
    /\ destroyCount' = [nodes |-> Released(destroyCount.nodes, liveNodes),
                        links |-> Released(destroyCount.links, liveLinks)]
    /\ liveNodes' = {}
    /\ liveLinks' = {}
    /\ Advance
    /\ UNCHANGED <<script, netState, kind, declIP, nextIP, intfs, links, routes, forward,
                   flows, macTable, lastErr, executed, results, results2, file,
                   enterPressed, opCount>>

\* --------------------------------------------------------------- exceptions
\* The statements that raise on failure; run() has no try/finally, so the
\* exception ends the run where it is.  (node.cmd does not raise.)
RaisingOps == {"addHost", "addSwitch", "addLink", "start", "write", "input"}

Raise ==
    /\ run = "running"
    /\ ~AtEnd
    /\ Cur.op \in RaisingOps
    /\ run' = "aborted"
    /\ UNCHANGED <<script, pc, netState, kind, declIP, nextIP, intfs, links, liveNodes,
                   liveLinks, destroyCount, routes, forward, flows, macTable, lastErr,
                   executed, results, results2, file, enterPressed, opCount>>

\* ------------------------------------------------------------ specification
ScriptStep ==
    \/ AddHost \/ AddSwitch \/ AddLink \/ NetStart
    \/ Ifconfig \/ Sysctl \/ IpRouteAdd \/ AddNormalFlow
    \/ NewResults \/ Ping \/ WriteResults \/ Input
    \/ NetStop \/ Cleanup

Next ==
    \/ AddHost \/ AddSwitch \/ AddLink \/ NetStart
    \/ Ifconfig \/ Sysctl \/ IpRouteAdd \/ AddNormalFlow
    \/ NewResults \/ Ping \/ WriteResults \/ Input
    \/ NetStop \/ Cleanup
    \/ Raise
    \/ OpDelFlows \/ OpAddFlow \/ OpPressEnter

Spec == Init /\ [][Next]_vars

\* The interpreter keeps executing the statements of run(); nothing obliges
\* the operator to act, and no statement is obliged to fail.
FairSpec == Spec /\ WF_vars(ScriptStep)

\* ==================================================================== claims
Created == {n \in AllNodes : kind[n] # "none"}

DeclaredNodes == {Program[i].a : i \in {j \in 1..Len(Program) :
                                        Program[j].op \in {"addHost", "addSwitch"}}}

\* ---- C1 ----------------------------------------------------------------
\* The i-th interface of n belongs to n's i-th incident link.
InterfacesFollowLinks(base(_)) ==
    \A n \in AllNodes :
        /\ Len(intfs[n]) = Cardinality(IncidentLinks(n))
        /\ \A i \in 1..Len(intfs[n]) : intfs[n][i].port = base(n) + i - 1
        /\ \A l \in IncidentLinks(n) :
              LET before == Cardinality({j \in IncidentLinks(n) : j < l})
              IN  (IF links[l].n1 = n THEN links[l].p1 ELSE links[l].p2) = base(n) + before

ZeroBase(n) == 0

\* C1 as stated: every node has as many interfaces as incident links and each
\* interface's index is its 0-based creation order, on hosts, routers and switches.
C1_ZeroBasedEverywhere == InterfacesFollowLinks(ZeroBase)

\* C1 amended: every node has as many interfaces as incident links; the index of
\* an interface is its creation order counted from 0 on hosts and routers and
\* from 1 on switches (the index given by addLink is the node's port base plus
\* the count of interfaces already on the node).
C1_IndexIsCreationOrderFromBase == InterfacesFollowLinks(PortBase)

C1_Witness ==
    /\ script = "exp2"
    /\ Len(links) = 4
    /\ Ports("s1") = {1, 2, 3}
    /\ Ports("s2") = {1, 2}
    /\ Ports("h3") = {0}

\* ---- C2 ----------------------------------------------------------------
\* C2: however the run ends (normally or by a failing step), it ends with no
\* live namespace and no live link.
C2_TeardownOnEveryExit ==
    run \in {"done", "aborted"} => liveNodes = {} /\ liveLinks = {}

\* ---- C3 ----------------------------------------------------------------
ExplicitMatch(table, p) ==
    \E r \in table : r.type # "normal" /\ (r.in_port = 0 \/ r.in_port = p)

\* C3: whenever s1 holds the rule (priority=100, in_port=2, drop), a packet
\* entering on port 2 is dropped, and a packet entering on a port that no
\* explicit rule matches gets the normal action, whatever the priorities.
C3_ExplicitBeatsNormal ==
    (netState = "started" /\ DropPort2 \in flows["s1"]) =>
        /\ Evaluate(flows["s1"], 2).type = "drop"
        /\ \A p \in Ports("s1") :
              ~ExplicitMatch(flows["s1"], p) => Evaluate(flows["s1"], p).type = "normal"

\* ---- C4 ----------------------------------------------------------------
\* Some address, route, forwarding flag or flow has been programmed.
Programmed ==
    \E n \in AllNodes :
        \/ \E i \in 1..Len(intfs[n]) : intfs[n][i].addr # 0
        \/ routes[n] # << >>
        \/ forward[n]
        \/ flows[n] # {}

AllBuilt == Created = DeclaredNodes /\ Len(links) = NumLinks(Program)

ProbingStarted == executed # << >>

\* C4 as stated: nodes and links are all created before anything is programmed,
\* and once the first probe has run no node or link is created and no
\* forwarding state changes while the network is up.
C4_NothingChangesAfterFirstProbe ==
    [][ /\ Programmed' => AllBuilt
        /\ (ProbingStarted /\ netState' = "started") =>
              UNCHANGED <<kind, links, intfs, routes, forward, flows>> ]_vars

\* C4 amended: nodes and links are all created before anything is programmed;
\* the first probe runs only after the script's own programming (in exp2 the
\* normal flow on both switches); once probing has started no node or link is
\* created and no address, route or forwarding flag changes, and the only
\* forwarding state that changes is the flow table of s1 in exp2, changed by
\* the operator during the pause between the two ping phases.
C4_BuildThenProgramThenProbe ==
    [][ /\ Programmed' => AllBuilt
        /\ (~ProbingStarted /\ ProbingStarted' /\ script = "exp2") =>
              NormalFlow \in flows["s1"] /\ NormalFlow \in flows["s2"]
        /\ (ProbingStarted /\ netState' = "started") =>
              /\ UNCHANGED <<kind, links, intfs, routes, forward>>
              /\ \A n \in AllNodes \ {"s1"} : flows'[n] = flows[n]
              /\ flows' # flows =>
                    /\ script = "exp2"
                    /\ At("input") /\ ~enterPressed
                    /\ Len(executed) = 2 /\ results2 = << >> ]_vars

C4_Witness ==
    /\ script = "exp2"
    /\ netState = "started"
    /\ flows["s1"] = ManualRules
    /\ Len(executed) = 4

\* ---- C5 ----------------------------------------------------------------
\* ping_tests of the running script (exp2's target is h3.IP()).
PingTests ==
    IF script = "exp1"
    THEN << [src |-> "h1", dst |-> IP(10,0,2,2)], [src |-> "h2", dst |-> IP(10,0,2,2)],
            [src |-> "h3", dst |-> IP(10,0,0,1)], [src |-> "h3", dst |-> IP(10,0,3,2)] >>
    ELSE << [src |-> "h1", dst |-> declIP["h3"].ip], [src |-> "h2", dst |-> declIP["h3"].ip] >>

IsOutput(e) == e.type = "output"

RecordedOutputs == SelectSeq(results \o results2, IsOutput)

ProbesFollow(expected) ==
    /\ Len(executed) <= Len(expected)
    /\ \A i \in 1..Len(executed) :
          executed[i].src = expected[i].src /\ executed[i].dst = expected[i].dst
    /\ Len(RecordedOutputs) = Len(executed)
    /\ \A i \in 1..Len(executed) :
          RecordedOutputs[i] = Entry("output", executed[i].src, executed[i].dst, executed[i].ok)
    /\ Len(executed) < Len(expected) => netState # "stopped"
    /\ (ProbingStarted /\ netState # "stopped") =>
          /\ netState = "started"
          /\ liveNodes = Created
          /\ liveLinks = 1..Len(links)

\* C5 as stated: whatever the outcomes of the pings, every probe of the list is
\* executed exactly once, in list order, with one recorded result each, and the
\* network is stopped only after the last of them.
C5_EachProbeExactlyOnce == ProbesFollow(PingTests)

\* C5 amended: whatever the outcomes of the pings, every pass over the list
\* (one in exp1, two in exp2: phase 1 and phase 2) executes every probe exactly
\* once in list order, one result entry is recorded per executed probe in the
\* same order, the topology stays up until the last probe of the last pass has
\* run, and the network is stopped only after it.
C5_EachProbeOncePerPass ==
    ProbesFollow(IF script = "exp1" THEN PingTests ELSE PingTests \o PingTests)

C5_Witness ==
    /\ script = "exp1"
    /\ netState = "stopped"
    /\ Len(executed) = 4
    /\ ~executed[1].ok /\ executed[2].ok /\ ~executed[3].ok /\ executed[4].ok

\* ---- C6 ----------------------------------------------------------------
\* exp1 has finished its address and route configuration and the net is up.
Exp1Configured ==
    /\ script = "exp1"
    /\ netState = "started"
    /\ ~AtEnd
    /\ Cur.op \in {"newResults", "ping", "write", "stop"}

\* The probes of exp1 and the probe of h1's gateway.
Exp1Probes == {PingTests[i] : i \in 1..Len(PingTests)} \cup
              {[src |-> "h1", dst |-> IP(10,0,0,3)]}

\* C6: with exp1's configuration, hop-by-hop longest-prefix-match resolution
\* delivers every probe to the node owning the target address and the reply
\* back to the source, with no loop and no hop without a route; h1's gateway
\* 10.0.0.3, which matches both h1's connected /24 and its default route,
\* resolves via the /24.
C6_Exp1ProbesDelivered ==
    Exp1Configured =>
        /\ \A p \in Exp1Probes :
              LET e == Echo(macTable, p.src, p.dst)
              IN  /\ e.req.status = "delivered"
                  /\ e.req.at \in Owners(p.dst)
                  /\ e.req.hops <= 3
                  /\ e.rep.status = "delivered"
                  /\ e.rep.at = p.src
                  /\ e.rep.hops = e.req.hops
        /\ Cardinality(Matching(routes["h1"], IP(10,0,0,3))) = 2
        /\ ResolveRoute(routes["h1"], IP(10,0,0,3)).len = 24
        /\ ResolveRoute(routes["h1"], IP(10,0,2,2)).len = 0

C6_Witness ==
    /\ Exp1Configured
    /\ Cur.op = "write"
    /\ \A i \in 1..4 : executed[i].ok

\* ---- C7 ----------------------------------------------------------------
\* C7: no statement holds the caller forever: under fair scheduling every run
\* eventually leaves run(), having executed net.stop() unless a failing step
\* ended it earlier.
C7_RunEventuallyEnds == <>(run # "running")

\* ---- C8 ----------------------------------------------------------------
NoDuplicatePrefix ==
    \A n \in AllNodes : \A i, j \in 1..Len(routes[n]) :
        (routes[n][i].prefix = routes[n][j].prefix /\ routes[n][i].len = routes[n][j].len)
            => i = j

\* The statement about to run installs, on its node, a route for a prefix the
\* node's table already holds.
InstallsExistingPrefix ==
    /\ run = "running" /\ ~AtEnd
    /\ \/ Cur.op = "route" /\ HasPrefix(routes[Cur.a], Cur.ip, Cur.len)
       \/ Cur.op = "ifconfig" /\ HasPrefix(routes[Cur.a], NetOf(Cur.ip, Cur.len), Cur.len)

\* The statement about to run gives an interface the address it already has.
ReassignsSameAddress ==
    /\ At("ifconfig")
    /\ IntfOf(Cur.a, Cur.port).addr = Cur.ip
    /\ IntfOf(Cur.a, Cur.port).plen = Cur.len

ReleasedAtMostOnce ==
    /\ \A n \in AllNodes : destroyCount.nodes[n] <= 1
    /\ \A l \in DOMAIN destroyCount.links : destroyCount.links[l] <= 1

\* C9: the `mn -c` pass after net.stop() finds nothing of the topology left,
\* does not fail the run, releases nothing a second time and leaves the state
\* as net.stop() left it.
C9_CleanupAfterStopIsNoOp ==
    [][ /\ (At("cleanup") /\ pc' # pc) =>
              /\ netState = "stopped"
              /\ liveNodes = {} /\ liveLinks = {}
              /\ UNCHANGED <<netState, liveNodes, liveLinks, destroyCount, intfs, links,
                             routes, flows, forward, file>>
              /\ run' = "done"
        /\ ReleasedAtMostOnce' ]_vars

C9_Witness ==
    /\ run = "done"
    /\ netState = "stopped"
    /\ \A n \in Created : destroyCount.nodes[n] = 1
    /\ \A l \in 1..Len(links) : destroyCount.links[l] = 1
    /\ Len(links) = 4

\* ---- C10 ---------------------------------------------------------------
HostIPs == {PrimaryIP(n) : n \in {"h1", "h2", "h3"}}

\* C10: in exp2, with exactly the three rules of the manual step on s1 and the
\* normal flow on s2, what h1 sends to h3 leaves s1 on port 3 and reaches h3,
\* h3's replies enter s1 on port 3, leave on port 1 and reach h1, and nothing
\* h2 sends arrives at any other node; with only the normal flow on both
\* switches (phase 1) the probes h1->h3 and h2->h3 and their replies are
\* delivered.
C10_ManualRulesIsolateH2 ==
    /\ (script = "exp2" /\ netState = "started" /\ flows["s1"] = ManualRules
          /\ NormalFlow \in flows["s2"]) =>
          LET req == Route(macTable, "h1", PrimaryIP("h3"), MaxHops)
              rep == Route(macTable, "h3", PrimaryIP("h1"), MaxHops)
          IN  /\ req.status = "delivered" /\ req.at = "h3"
              /\ \E v \in req.vis : v.sw = "s1"
              /\ \A v \in req.vis : v.sw = "s1" => v.in = 1 /\ v.out = {3}
              /\ rep.status = "delivered" /\ rep.at = "h1"
              /\ \E v \in rep.vis : v.sw = "s1"
              /\ \A v \in rep.vis : v.sw = "s1" => v.in = 3 /\ v.out = {1}
              /\ \A d \in HostIPs : Route(macTable, "h2", d, MaxHops).arr = {}
              /\ ~Echo(macTable, "h2", PrimaryIP("h3")).ok
    /\ (script = "exp2" /\ netState = "started" /\ flows["s1"] = {NormalFlow}
          /\ flows["s2"] = {NormalFlow}) =>
          /\ Echo(macTable, "h1", PrimaryIP("h3")).ok
          /\ Echo(macTable, "h2", PrimaryIP("h3")).ok

C10_Witness ==
    /\ script = "exp2"
    /\ flows["s1"] = ManualRules
    /\ Len(executed) = 4
    /\ executed[1].ok /\ executed[2].ok
    /\ executed[3].ok /\ ~executed[4].ok

====
